---- MODULE Spec2Model ----
(***************************************************************************)
(* The rules engine of QtQuoridor (class Game of main.py) as a state       *)
(* machine: the two pawns, the committed wall parts, the turn index and    *)
(* the remaining walls, driven by calls of Game.move_to and Game.add_wall. *)
(***************************************************************************)
EXTENDS Integers, Sequences, FiniteSets, TLC

(* ------------------------------------------------------------------ *)
(* Bounds of the exploration (inputs the callers draw from).          *)
(* ------------------------------------------------------------------ *)
\* Spec: destinations lie in the start column, or beside it in the rows
\* 0..TopRows; at most MaxWalls walls are accepted.
TopRows == 1
MaxWalls == 2
\* SpecBudget: destinations are the cells of the start column in rows
\* 0..ShuttleRows.
ShuttleRows == 1
\* SpecBlock: each pawn moves in the start column, in the BlockRows + 1 rows
\* nearest to its start.
BlockRows == 1
\* SpecSearch: the searching player stands in the start column, in one of the
\* SearchRows + 1 rows nearest to either edge.
SearchRows == 1

(* ------------------------------------------------------------------ *)
(* Position (a NamedTuple) and its arithmetic.                        *)
(* ------------------------------------------------------------------ *)
GRID == 9

Position(row, col) == <<row, col>>

in_grid(p) == 0 <= p[1] /\ p[1] < GRID /\ 0 <= p[2] /\ p[2] < GRID

position_add(p, q) == Position(p[1] + q[1], p[2] + q[2])

position_sub(p, q) == Position(p[1] - q[1], p[2] - q[2])

position_mul(p, n) == Position(p[1] * n, p[2] * n)

\* Python's // floors; n is 2 wherever the engine divides.
position_floordiv(p, n) == Position(p[1] \div n, p[2] \div n)

Abs(x) == IF x < 0 THEN -x ELSE x

manhattan(p, q) == Abs(position_sub(p, q)[1]) + Abs(position_sub(p, q)[2])

Cells == {Position(r, c) : r \in 0..(GRID - 1), c \in 0..(GRID - 1)}

\* x in seq
InSeq(x, seq) == \E i \in 1..Len(seq) : seq[i] = x

(* ------------------------------------------------------------------ *)
(* Module-level tables.                                               *)
(* ------------------------------------------------------------------ *)
\* North, South, West, East
MOVES == <<Position(-1, 0), Position(1, 0), Position(0, -1), Position(0, 1)>>

nb_players == 2

Players == 0..(nb_players - 1)

PLAYER_STARTS == [i \in Players |-> IF i = 0 THEN Position(8, 4) ELSE Position(0, 4)]

PLAYER_HAS_WIN(i, pos) == IF i = 0 THEN pos[1] = 0 ELSE pos[1] = 8

TOTAL_WALLS == 20

(* ------------------------------------------------------------------ *)
(* Messages of class Game; None is the result of an accepted call.    *)
(* ------------------------------------------------------------------ *)
None == "None"
ERROR_BLOCK_HIM == "You can not entirely block another player."
ERROR_BLOCK_YOU == "You can not entirely block yourself."
ERROR_FAR_AWAY == "You can not go that far."
ERROR_GHOST == "You can not go through a wall."
\* ERROR_JUMP % how % what
ERROR_JUMP(how, what) == "To jump " \o how \o " an enemy, you need " \o what \o "."
ERROR_NO_WALL == "You can not put up a wall you do not have."
ERROR_NOTHING == "You must move or add a wall (if you have)."
ERROR_WALL_INTERSECTION == "You can not create a wall twice."

(* ------------------------------------------------------------------ *)
(* State of a Game, and the record of the last call.                  *)
(* ------------------------------------------------------------------ *)
VARIABLES
    players_positions,  \* [Players -> Position]
    wall_parts,         \* set of fine coordinates
    index,              \* whose turn it is
    count_walls,        \* [Players -> Nat]
    placed,             \* history: the <<cell, hv>> of every accepted wall
    last,               \* history: the last call, its result and the state it was made in
    search,             \* can_exit: the locals of the loop (stack, visited, found)
    search_call,        \* can_exit: its arguments, the state at entry, its result
    expanded,           \* history: the cells whose neighbours can_exit has enumerated
    isFinished,         \* Board.isFinished
    playerIndex,        \* Board.playerIndex
    turnLabel,          \* TurnLabel.index
    playerLabels        \* [Players -> PlayerLabel.nbWalls]

game_vars == <<players_positions, wall_parts, index, count_walls, placed>>

search_vars == <<search, search_call, expanded>>

board_vars == <<isFinished, playerIndex, turnLabel, playerLabels>>

vars == <<game_vars, last, search_vars, board_vars>>

\* The committed game state, as the calls read it.
GameState == [positions |-> players_positions, walls |-> wall_parts,
              index |-> index, counts |-> count_walls]

\* The value of last between two calls.
NoCall == [op |-> "none"]

(* ------------------------------------------------------------------ *)
(* Game.has_win, Game.next_turn                                        *)
(* ------------------------------------------------------------------ *)
\* has_win reading the goal of the other player.
has_win_other_goal(positions, i) == PLAYER_HAS_WIN(1 - i, positions[i])

has_win(positions, i) == PLAYER_HAS_WIN(i, positions[i])

\* next_turn without the has_win test: the turn always passes.
next_turn_always(positions, idx) == (idx + 1) % nb_players

\* The index after next_turn() in a game with these positions and index.
next_turn(positions, idx) ==
    IF ~has_win(positions, idx) THEN (idx + 1) % nb_players ELSE idx

(* ------------------------------------------------------------------ *)
(* Game.naive_neighbors, Game.can_exit                                 *)
(* ------------------------------------------------------------------ *)
\* position + move for the moves, in the order of MOVES, that stay in the grid,
\* tabulated once for the 81 cells (every caller passes a cell of the grid).
moves_in_grid ==
    [position \in Cells |->
        SelectSeq([m \in 1..Len(MOVES) |-> position_add(position, MOVES[m])],
                  LAMBDA neighbor : in_grid(neighbor))] @@ <<>>

\* naive_neighbors without the wall test: every move that stays in the grid.
naive_neighbors_through_walls(position, walls) == moves_in_grid[position]

\* The neighbours, in the order of MOVES, that the generator yields.
naive_neighbors(position, walls) ==
    SelectSeq(moves_in_grid[position],
              LAMBDA neighbor : position_add(position, neighbor) \notin walls)

\* The iteration pushing only the last neighbour it finds: a walk, not a search.
can_exit_step_one_way(s, i, walls) ==
    LET position == s.stack[Len(s.stack)]
        rest == SubSeq(s.stack, 1, Len(s.stack) - 1)
    IN  IF position \in s.visited THEN [s EXCEPT !.stack = rest]
        ELSE LET seen == s.visited \cup {position}
                 neighbors == naive_neighbors(position, walls)
                 fresh == SelectSeq(neighbors, LAMBDA nb : nb \notin seen)
             IN  IF SelectSeq(neighbors, LAMBDA nb : PLAYER_HAS_WIN(i, nb)) # <<>>
                 THEN [stack |-> rest, visited |-> seen, found |-> TRUE]
                 ELSE [stack |-> rest \o (IF fresh = <<>> THEN <<>> ELSE <<fresh[Len(fresh)]>>),
                       visited |-> seen, found |-> FALSE]

\* The iteration without visited.add(position).
can_exit_step_forgetful(s, i, walls) ==
    LET position == s.stack[Len(s.stack)]
        rest == SubSeq(s.stack, 1, Len(s.stack) - 1)
    IN  IF position \in s.visited THEN [s EXCEPT !.stack = rest]
        ELSE LET neighbors == naive_neighbors(position, walls)
             IN  IF SelectSeq(neighbors, LAMBDA nb : PLAYER_HAS_WIN(i, nb)) # <<>>
                 THEN [stack |-> rest, visited |-> s.visited, found |-> TRUE]
                 ELSE [stack |-> rest \o SelectSeq(neighbors, LAMBDA nb : nb \notin s.visited),
                       visited |-> s.visited, found |-> FALSE]

\* One iteration of the while loop of can_exit, on the loop's variables: the
\* stack is popped from its end; found records that the loop returned True.
can_exit_step(s, i, walls) ==
    LET position == s.stack[Len(s.stack)]
        rest == SubSeq(s.stack, 1, Len(s.stack) - 1)
    IN  IF position \in s.visited THEN [s EXCEPT !.stack = rest]
        ELSE LET seen == s.visited \cup {position}
                 neighbors == naive_neighbors(position, walls)
             IN  IF SelectSeq(neighbors, LAMBDA nb : PLAYER_HAS_WIN(i, nb)) # <<>>
                 THEN [stack |-> rest, visited |-> seen, found |-> TRUE]
                 ELSE [stack |-> rest \o SelectSeq(neighbors, LAMBDA nb : nb \notin seen),
                       visited |-> seen, found |-> FALSE]

\* The loop has ended: it returned True, or the stack is empty.
can_exit_done(s) == s.found \/ s.stack = <<>>

\* Every cell is expanded at most once and pushes at most Len(MOVES) cells.
MaxIterations == Len(MOVES) * Cardinality(Cells) + 1

\* The loop variables after at most n more iterations (halving keeps the
\* evaluation shallow; the iterations run in the loop's order).
RECURSIVE can_exit_loop(_, _, _, _)
can_exit_loop(s, n, i, walls) ==
    IF can_exit_done(s) THEN s
    ELSE IF n = 1 THEN can_exit_step(s, i, walls)
    ELSE can_exit_loop(can_exit_loop(s, n \div 2, i, walls), n - (n \div 2), i, walls)

can_exit(positions, i, walls) ==
    can_exit_loop([stack |-> <<positions[i]>>, visited |-> {}, found |-> FALSE],
                  MaxIterations, i, walls).found

(* ------------------------------------------------------------------ *)
(* Game.add_wall                                                       *)
(* ------------------------------------------------------------------ *)
\* The pair without the [::x] slice: the same for both orientations.
wall_moves_unsliced(hv) == <<Position(0, 1), Position(1, 0)>>

\* (Position(0, 1), Position(1, 0))[::x] with x = -1 if hv == 'v' else 1
wall_moves(hv) ==
    LET x == IF hv = "v" THEN -1 ELSE 1
        pair == <<Position(0, 1), Position(1, 0)>>
    IN  IF x = 1 THEN pair ELSE <<pair[2], pair[1]>>

\* {position * 2 + other_move + move * n for n in range(3)}
new_wall_parts(position, hv) ==
    LET move == wall_moves(hv)[1]
        other_move == wall_moves(hv)[2]
    IN  {position_add(position_add(position_mul(position, 2), other_move),
                      position_mul(move, n)) : n \in 0..2}

\* add_wall without its can_exit loop: no player is ever found blocked.
blocked_players_unchecked(positions, walls) == {}

\* The players, in index order, that the candidate lattice leaves without exit.
blocked_players(positions, walls) ==
    {i \in Players : ~can_exit(positions, i, walls)}

\* The loop over the players taken from the last index down.
SetMax(S) == CHOOSE x \in S : \A y \in S : x >= y

SetMin(S) == CHOOSE x \in S : \A y \in S : x <= y

\* add_wall without the intersection test.
add_wall_message_no_intersection_test(g, position, hv) ==
    IF g.counts[g.index] = 0 THEN ERROR_NO_WALL
    ELSE LET blocked == blocked_players(g.positions,
                                        new_wall_parts(position, hv) \cup g.walls)
         IN  IF blocked = {} THEN None
             ELSE IF SetMin(blocked) = g.index THEN ERROR_BLOCK_YOU
             ELSE ERROR_BLOCK_HIM

\* add_wall testing the acting player's exit before the other players'.
add_wall_message_actor_first(g, position, hv) ==
    IF g.counts[g.index] = 0 THEN ERROR_NO_WALL
    ELSE IF new_wall_parts(position, hv) \cap g.walls # {} THEN ERROR_WALL_INTERSECTION
    ELSE LET blocked == blocked_players(g.positions,
                                        new_wall_parts(position, hv) \cup g.walls)
         IN  IF blocked = {} THEN None
             ELSE IF g.index \in blocked THEN ERROR_BLOCK_YOU
             ELSE ERROR_BLOCK_HIM

\* add_wall with the intersection test before the count test.
add_wall_message_intersection_first(g, position, hv) ==
    IF new_wall_parts(position, hv) \cap g.walls # {} THEN ERROR_WALL_INTERSECTION
    ELSE IF g.counts[g.index] = 0 THEN ERROR_NO_WALL
    ELSE LET blocked == blocked_players(g.positions,
                                        new_wall_parts(position, hv) \cup g.walls)
         IN  IF blocked = {} THEN None
             ELSE IF SetMin(blocked) = g.index THEN ERROR_BLOCK_YOU
             ELSE ERROR_BLOCK_HIM

\* add_wall_message without the test of the count of the current player.
add_wall_message_no_count_test(g, position, hv) ==
    IF new_wall_parts(position, hv) \cap g.walls # {} THEN ERROR_WALL_INTERSECTION
    ELSE LET blocked == blocked_players(g.positions,
                                        new_wall_parts(position, hv) \cup g.walls)
         IN  IF blocked = {} THEN None
             ELSE IF SetMin(blocked) = g.index THEN ERROR_BLOCK_YOU
             ELSE ERROR_BLOCK_HIM

\* What add_wall returns in game state g.
add_wall_message(g, position, hv) ==
    IF g.counts[g.index] = 0 THEN ERROR_NO_WALL
    ELSE IF new_wall_parts(position, hv) \cap g.walls # {} THEN ERROR_WALL_INTERSECTION
    ELSE LET blocked == blocked_players(g.positions,
                                        new_wall_parts(position, hv) \cup g.walls)
         IN  IF blocked = {} THEN None
             ELSE IF SetMin(blocked) = g.index THEN ERROR_BLOCK_YOU
             ELSE ERROR_BLOCK_HIM

\* add_wall taking the wall from the count right after the count test, before
\* the intersection test.
add_wall_count_first(position, hv) ==
    LET message == add_wall_message(GameState, position, hv)
    IN  /\ last = NoCall
        /\ in_grid(position) /\ hv \in {"h", "v"}
        /\ last' = [op |-> "add_wall", position |-> position, hv |-> hv,
                    message |-> message, pre |-> GameState]
        /\ count_walls' = IF message = ERROR_NO_WALL THEN count_walls
                          ELSE [count_walls EXCEPT ![index] = @ - 1]
        /\ IF message # None
           THEN UNCHANGED <<players_positions, wall_parts, index, placed>>
           ELSE /\ wall_parts' = wall_parts \cup (new_wall_parts(position, hv) \cup wall_parts)
                /\ index' = next_turn(players_positions, index)
                /\ placed' = placed \cup {<<position, hv>>}
                /\ UNCHANGED players_positions

\* add_wall taking the wall from the count after next_turn(), from the player
\* whose turn it has become.
add_wall_count_after_turn(position, hv) ==
    LET message == add_wall_message(GameState, position, hv)
    IN  /\ last = NoCall
        /\ in_grid(position) /\ hv \in {"h", "v"}
        /\ last' = [op |-> "add_wall", position |-> position, hv |-> hv,
                    message |-> message, pre |-> GameState]
        /\ IF message # None
           THEN UNCHANGED <<players_positions, wall_parts, index, count_walls, placed>>
           ELSE /\ wall_parts' = wall_parts \cup (new_wall_parts(position, hv) \cup wall_parts)
                /\ index' = next_turn(players_positions, index)
                /\ count_walls' = [count_walls EXCEPT ![index'] = @ - 1]
                /\ placed' = placed \cup {<<position, hv>>}
                /\ UNCHANGED players_positions

\* A call of add_wall: its message and, if the message is None, its commit
\* (wall_parts |= self.wall_parts, then self.wall_parts |= wall_parts).
add_wall(position, hv) ==
    LET message == add_wall_message(GameState, position, hv)
    IN  /\ last = NoCall
        /\ in_grid(position) /\ hv \in {"h", "v"}
        /\ last' = [op |-> "add_wall", position |-> position, hv |-> hv,
                    message |-> message, pre |-> GameState]
        /\ IF message # None
           THEN UNCHANGED <<players_positions, wall_parts, index, count_walls, placed>>
           ELSE /\ wall_parts' = wall_parts \cup (new_wall_parts(position, hv) \cup wall_parts)
                /\ count_walls' = [count_walls EXCEPT ![index] = @ - 1]
                /\ index' = next_turn(players_positions, index)
                /\ placed' = placed \cup {<<position, hv>>}
                /\ UNCHANGED players_positions

(* ------------------------------------------------------------------ *)
(* Game.move_to                                                        *)
(* ------------------------------------------------------------------ *)
\* players_positions as the list the comprehensions iterate over
positions_list(positions) == [k \in 1..nb_players |-> positions[k - 1]]

\* The straight jump with the wall behind the enemy tested before the wall
\* between the player and the enemy.
jump_over_message_behind_first(g, destination) ==
    LET current_position == g.positions[g.index]
        diff == position_sub(destination, current_position)
        enemy == position_add(current_position, position_floordiv(diff, 2))
    IN  IF ~InSeq(enemy, positions_list(g.positions)) THEN ERROR_FAR_AWAY
        ELSE IF ~InSeq(destination, naive_neighbors(enemy, g.walls))
             THEN ERROR_JUMP("over", "no wall behind him/her")
        ELSE IF ~InSeq(enemy, naive_neighbors(current_position, g.walls))
             THEN ERROR_JUMP("over", "no wall\nbetween you and him/her")
        ELSE None

\* distance == 2 and 0 in diff
jump_over_message(g, destination) ==
    LET current_position == g.positions[g.index]
        diff == position_sub(destination, current_position)
        enemy == position_add(current_position, position_floordiv(diff, 2))
    IN  IF ~InSeq(enemy, positions_list(g.positions)) THEN ERROR_FAR_AWAY
        ELSE IF ~InSeq(enemy, naive_neighbors(current_position, g.walls))
             THEN ERROR_JUMP("over", "no wall\nbetween you and him/her")
        ELSE IF ~InSeq(destination, naive_neighbors(enemy, g.walls))
             THEN ERROR_JUMP("over", "no wall behind him/her")
        ELSE None

\* The diagonal jump without the filter on what lies behind the enemy.
jump_beside_message_any_behind(g, destination) ==
    LET current_position == g.positions[g.index]
        enemies1 == SelectSeq(positions_list(g.positions),
                              LAMBDA enemy : manhattan(current_position, enemy) = 1)
        enemies2 == SelectSeq(enemies1, LAMBDA enemy : manhattan(enemy, destination) = 1)
        close == naive_neighbors(current_position, g.walls)
        enemies3 == SelectSeq(enemies2, LAMBDA enemy : InSeq(enemy, close))
        enemies5 == SelectSeq(enemies3,
                              LAMBDA enemy : InSeq(destination,
                                                   naive_neighbors(enemy, g.walls)))
    IN  IF enemies1 = <<>> THEN ERROR_FAR_AWAY
        ELSE IF enemies2 = <<>> THEN ERROR_FAR_AWAY
        ELSE IF enemies3 = <<>>
             THEN ERROR_JUMP("beside", "no wall\nbetween you and him/her")
        ELSE IF enemies5 = <<>>
             THEN ERROR_JUMP("beside", "no wall\nbetween him/her and the destination")
        ELSE None

\* distance == 2 and 0 not in diff
jump_beside_message(g, destination) ==
    LET current_position == g.positions[g.index]
        enemies1 == SelectSeq(positions_list(g.positions),
                              LAMBDA enemy : manhattan(current_position, enemy) = 1)
        enemies2 == SelectSeq(enemies1, LAMBDA enemy : manhattan(enemy, destination) = 1)
        close == naive_neighbors(current_position, g.walls)
        enemies3 == SelectSeq(enemies2, LAMBDA enemy : InSeq(enemy, close))
        behind(enemy) == position_add(current_position,
                                      position_mul(position_sub(enemy, current_position), 2))
        enemies4 == SelectSeq(enemies3,
                              LAMBDA enemy : \/ ~in_grid(behind(enemy))
                                             \/ ~InSeq(behind(enemy),
                                                       naive_neighbors(enemy, g.walls)))
        enemies5 == SelectSeq(enemies4,
                              LAMBDA enemy : InSeq(destination,
                                                   naive_neighbors(enemy, g.walls)))
    IN  IF enemies1 = <<>> THEN ERROR_FAR_AWAY
        ELSE IF enemies2 = <<>> THEN ERROR_FAR_AWAY
        ELSE IF enemies3 = <<>>
             THEN ERROR_JUMP("beside", "no wall\nbetween you and him/her")
        ELSE IF enemies4 = <<>> THEN ERROR_JUMP("beside", "a wall behind him/her")
        ELSE IF enemies5 = <<>>
             THEN ERROR_JUMP("beside", "no wall\nbetween him/her and the destination")
        ELSE None

\* What move_to returns in game state g.
move_to_message(g, destination) ==
    LET current_position == g.positions[g.index]
        distance == manhattan(current_position, destination)
        diff == position_sub(destination, current_position)
    IN  IF distance = 0 THEN ERROR_NOTHING
        ELSE IF distance > 2 THEN ERROR_FAR_AWAY
        ELSE IF distance = 1
             THEN IF ~InSeq(destination, naive_neighbors(current_position, g.walls))
                  THEN ERROR_GHOST
                  ELSE None
        ELSE IF diff[1] = 0 \/ diff[2] = 0
             THEN jump_over_message(g, destination)
             ELSE jump_beside_message(g, destination)

\* move_to writing the destination after next_turn(), at the new index.
move_to_after_turn(destination) ==
    LET message == move_to_message(GameState, destination)
    IN  /\ last = NoCall
        /\ in_grid(destination)
        /\ last' = [op |-> "move_to", position |-> destination, hv |-> "-",
                    message |-> message, pre |-> GameState]
        /\ IF message # None
           THEN UNCHANGED <<players_positions, wall_parts, index, count_walls, placed>>
           ELSE /\ index' = next_turn(players_positions, index)
                /\ players_positions' = [players_positions EXCEPT ![index'] = destination]
                /\ UNCHANGED <<wall_parts, count_walls, placed>>

move_to(destination) ==
    LET message == move_to_message(GameState, destination)
    IN  /\ last = NoCall
        /\ in_grid(destination)
        /\ last' = [op |-> "move_to", position |-> destination, hv |-> "-",
                    message |-> message, pre |-> GameState]
        /\ IF message # None
           THEN UNCHANGED <<players_positions, wall_parts, index, count_walls, placed>>
           ELSE /\ players_positions' = [players_positions EXCEPT ![index] = destination]
                /\ index' = next_turn(players_positions', index)
                /\ UNCHANGED <<wall_parts, count_walls, placed>>

\* The caller has read the message of the call: the game waits for the next call.
Return ==
    /\ last # NoCall
    /\ last' = NoCall
    /\ UNCHANGED <<game_vars, search_vars, board_vars>>

(* ------------------------------------------------------------------ *)
(* Board: its widgets, nextTurn, addWall and receiveClick.             *)
(* ------------------------------------------------------------------ *)
IT_IS_OVER == "It is over!"

\* The positions of the layout: range(0, 18, 2) and the odd numbers between.
BoardItems == {Position(row, col) : row \in 0..(2 * (GRID - 1)), col \in 0..(2 * (GRID - 1))}

\* The class of the widget that _generateBoardWidgets puts at an item position.
widget_class(item) ==
    IF item[1] % 2 = 0 /\ item[2] % 2 = 0 THEN "Cell"
    ELSE IF item[1] % 2 = 1 /\ item[2] % 2 = 1 THEN "Void"
    ELSE IF item[1] % 2 = 1 THEN (IF item[2] < 16 THEN "Wall" ELSE "Void")
    ELSE (IF item[1] < 16 THEN "Wall" ELSE "Void")

\* 'hv'[vertical]
hv_of(vertical) == IF vertical = 0 THEN "h" ELSE "v"

\* Board.nextTurn, read after the game has taken the call: the new values of
\* isFinished, playerIndex and TurnLabel.index.
board_nextTurn(positions, idx) ==
    IF has_win(positions, idx)
    THEN [isFinished |-> TRUE, playerIndex |-> playerIndex, turnLabel |-> turnLabel]
    ELSE [isFinished |-> isFinished,
          playerIndex |-> (playerIndex + 1) % nb_players,
          turnLabel |-> (turnLabel % nb_players) + 1]

\* Board.receiveClick without the isFinished test.
receiveClick_never_over(item_position) ==
    LET cell_position == position_floordiv(item_position, 2)
        vertical == item_position[2] % 2
    IN  /\ widget_class(item_position) \in {"Cell", "Wall"}
        /\ IF widget_class(item_position) = "Cell"
           THEN move_to(cell_position)
           ELSE add_wall(cell_position, hv_of(vertical))
        /\ IF last'.message # None
           THEN UNCHANGED board_vars
           ELSE LET after == board_nextTurn(players_positions', index')
                IN  /\ playerLabels' = IF widget_class(item_position) = "Wall"
                                       THEN [playerLabels EXCEPT ![playerIndex] = @ - 1]
                                       ELSE playerLabels
                    /\ isFinished' = after.isFinished
                    /\ playerIndex' = after.playerIndex
                    /\ turnLabel' = after.turnLabel
        /\ UNCHANGED search_vars

\* Board.receiveClick with the label of the next player updated by addWall.
receiveClick_label_after_turn(item_position) ==
    LET cell_position == position_floordiv(item_position, 2)
        vertical == item_position[2] % 2
    IN  /\ widget_class(item_position) \in {"Cell", "Wall"}
        /\ IF isFinished
           THEN /\ last = NoCall
                /\ last' = [op |-> "receiveClick", position |-> cell_position, hv |-> "-",
                            message |-> IT_IS_OVER, pre |-> GameState]
                /\ UNCHANGED <<game_vars, board_vars>>
           ELSE /\ IF widget_class(item_position) = "Cell"
                   THEN move_to(cell_position)
                   ELSE add_wall(cell_position, hv_of(vertical))
                /\ IF last'.message # None
                   THEN UNCHANGED board_vars
                   ELSE LET after == board_nextTurn(players_positions', index')
                        IN  /\ isFinished' = after.isFinished
                            /\ playerIndex' = after.playerIndex
                            /\ turnLabel' = after.turnLabel
                            /\ playerLabels' = IF widget_class(item_position) = "Wall"
                                               THEN [playerLabels EXCEPT ![playerIndex'] = @ - 1]
                                               ELSE playerLabels
        /\ UNCHANGED search_vars

\* A click on the Cell or Wall widget at item_position: the whole slot.
receiveClick(item_position) ==
    LET cell_position == position_floordiv(item_position, 2)
        vertical == item_position[2] % 2
    IN  /\ widget_class(item_position) \in {"Cell", "Wall"}
        /\ IF isFinished
           THEN /\ last = NoCall
                /\ last' = [op |-> "receiveClick", position |-> cell_position, hv |-> "-",
                            message |-> IT_IS_OVER, pre |-> GameState]
                /\ UNCHANGED <<game_vars, board_vars>>
           ELSE /\ IF widget_class(item_position) = "Cell"
                   THEN move_to(cell_position)
                   ELSE add_wall(cell_position, hv_of(vertical))
                /\ IF last'.message # None
                   THEN UNCHANGED board_vars
                   ELSE LET after == board_nextTurn(players_positions', index')
                        IN  \* Board.addWall, then Board.nextTurn
                            /\ playerLabels' = IF widget_class(item_position) = "Wall"
                                               THEN [playerLabels EXCEPT ![playerIndex] = @ - 1]
                                               ELSE playerLabels
                            /\ isFinished' = after.isFinished
                            /\ playerIndex' = after.playerIndex
                            /\ turnLabel' = after.turnLabel
        /\ UNCHANGED search_vars

(* ------------------------------------------------------------------ *)
(* Game.__init__ and the specifications.                               *)
(* ------------------------------------------------------------------ *)
\* No search is running.
NoSearch == [op |-> "none"]

\* TurnLabel.__init__: index = 0, then nextTurn().
TurnLabelInit == (0 % nb_players) + 1

\* Board.__init__ with the labels made by MainWindow.defineCentralWidget.
BoardInit ==
    /\ isFinished = FALSE
    /\ playerIndex = 0
    /\ turnLabel = TurnLabelInit
    /\ playerLabels = [i \in Players |-> TOTAL_WALLS \div nb_players]

\* The board and the search are left alone: the game is called directly.
GameOnly == UNCHANGED <<search_vars, board_vars>>

Init ==
    /\ players_positions = PLAYER_STARTS
    /\ wall_parts = {}
    /\ index = 0
    /\ count_walls = [i \in Players |-> TOTAL_WALLS \div nb_players]
    /\ placed = {}
    /\ last = NoCall
    /\ search = NoSearch
    /\ search_call = NoSearch
    /\ expanded = <<>>
    /\ BoardInit

StartCol == PLAYER_STARTS[0][2]

\* Spec: a game played along the start column, with walls on the top row.
PlayDests ==
    {p \in Cells : \/ p[2] = StartCol
                   \/ Abs(p[2] - StartCol) = 1 /\ p[1] <= TopRows}

\* The cells of the top row whose walls touch the start column.
PlayWallCells == {p \in Cells : p[1] = 0 /\ p[2] \in {StartCol - 1, StartCol}}

PlayMove == GameOnly /\ \E destination \in PlayDests : move_to(destination)

PlayWall ==
    /\ GameOnly
    /\ \E position \in PlayWallCells, hv \in {"h", "v"} :
          /\ \/ Cardinality(placed) < MaxWalls
             \/ new_wall_parts(position, hv) \cap wall_parts # {}
          /\ add_wall(position, hv)

Next == PlayMove \/ PlayWall \/ Return

Spec == Init /\ [][Next]_vars

\* SpecBudget: one pawn shuttles near its start while walls are laid in rows.
BudgetLine ==
    <<  <<Position(2, 0), "h">>, <<Position(2, 2), "h">>, <<Position(2, 4), "h">>,
        <<Position(2, 7), "h">>,
        <<Position(4, 0), "h">>, <<Position(4, 2), "h">>, <<Position(4, 4), "h">>,
        <<Position(4, 6), "h">>,
        <<Position(6, 0), "h">>, <<Position(6, 2), "h">>, <<Position(6, 4), "h">>,
        <<Position(6, 6), "h">>  >>

\* Walls that close a row of BudgetLine: (2, 6) also overlaps (2, 7).
BudgetTraps == {<<Position(2, 6), "h">>, <<Position(4, 8), "h">>}

\* The walls of BudgetLine are tried in order: those accepted so far (they now
\* overlap) and the next one; the traps are tried at any time.
BudgetWalls ==
    {BudgetLine[k] : k \in {j \in 1..Len(BudgetLine) : j <= Cardinality(placed) + 1}}
    \cup BudgetTraps

BudgetDests == {p \in Cells : p[2] = StartCol /\ p[1] <= ShuttleRows}

BudgetMove == GameOnly /\ \E destination \in BudgetDests : move_to(destination)

BudgetWall == GameOnly /\ \E w \in BudgetWalls : add_wall(w[1], w[2])

NextBudget == BudgetMove \/ BudgetWall \/ Return

SpecBudget == Init /\ [][NextBudget]_vars

\* SpecBlock: walls are laid beside each pawn, then across the board, while
\* the walls that would close a pocket or the board are tried at any time.
BlockLine ==
    <<  <<Position(0, 3), "v">>, <<Position(0, 4), "v">>,
        <<Position(7, 3), "v">>, <<Position(7, 4), "v">>,
        <<Position(4, 0), "h">>, <<Position(4, 2), "h">>, <<Position(4, 4), "h">>,
        <<Position(4, 6), "h">>  >>

\* (1, 3) closes the pocket under player 1's start, (6, 3) the pocket over
\* player 0's start, (4, 8) the row of BlockLine.
BlockTraps ==
    {<<Position(1, 3), "h">>, <<Position(6, 3), "h">>, <<Position(4, 8), "h">>}

\* The next wall of BlockLine, and the traps.
BlockWalls ==
    {BlockLine[k] : k \in {j \in 1..Len(BlockLine) :
                             j = Cardinality({i \in 1..Len(BlockLine) :
                                                BlockLine[i] \in placed}) + 1}}
    \cup BlockTraps

BlockDests ==
    {p \in Cells : p[2] = StartCol /\ (p[1] <= BlockRows \/ p[1] >= GRID - 1 - BlockRows)}

BlockMove == GameOnly /\ \E destination \in BlockDests : move_to(destination)

BlockWall == GameOnly /\ \E w \in BlockWalls : add_wall(w[1], w[2])

NextBlock == BlockMove \/ BlockWall \/ Return

SpecBlock == Init /\ [][NextBlock]_vars

(* ------------------------------------------------------------------ *)
(* SpecBoard: the game of Spec played by clicks on the board.          *)
(* ------------------------------------------------------------------ *)
BoardCells == {item \in BoardItems : /\ widget_class(item) = "Cell"
                                     /\ position_floordiv(item, 2) \in PlayDests}

BoardWalls == {item \in BoardItems : /\ widget_class(item) = "Wall"
                                     /\ position_floordiv(item, 2) \in PlayWallCells}

ClickCell == \E item \in BoardCells : receiveClick(item)

ClickWall ==
    \E item \in BoardWalls :
        /\ \/ Cardinality(placed) < MaxWalls
           \/ new_wall_parts(position_floordiv(item, 2), hv_of(item[2] % 2)) \cap wall_parts # {}
        /\ receiveClick(item)

NextBoard == ClickCell \/ ClickWall \/ Return

SpecBoard == Init /\ [][NextBoard]_vars

(* ------------------------------------------------------------------ *)
(* SpecSearch: one call of Game.can_exit, an iteration of its loop at  *)
(* a time, in a game where the first walls of BlockLine stand.         *)
(* ------------------------------------------------------------------ *)
SearchCells ==
    {p \in Cells : p[2] = StartCol /\ (p[1] <= SearchRows \/ p[1] >= GRID - 1 - SearchRows)}

\* The walls whose candidate lattice is searched after k walls of BlockLine.
SearchWalls(k) ==
    {BlockLine[j] : j \in {k + 1} \cap (1..Len(BlockLine))} \cup BlockTraps

InitSearch ==
    \E k \in 0..Len(BlockLine), i \in Players, cell \in SearchCells :
        \E w \in SearchWalls(k) :
            /\ cell # PLAYER_STARTS[1 - i]
            /\ players_positions = [PLAYER_STARTS EXCEPT ![i] = cell]
            /\ wall_parts = UNION {new_wall_parts(BlockLine[j][1], BlockLine[j][2]) : j \in 1..k}
            /\ index = k % nb_players
            /\ count_walls = [p \in Players |->
                                (TOTAL_WALLS \div nb_players) - ((k + 1 - p) \div nb_players)]
            /\ placed = {BlockLine[j] : j \in 1..k}
            /\ last = NoCall
            /\ isFinished = FALSE
            /\ playerIndex = index
            /\ turnLabel = index + 1
            /\ playerLabels = count_walls
            /\ search_call = [index |-> i,
                              wall_parts |-> new_wall_parts(w[1], w[2]) \cup wall_parts,
                              entry |-> [game |-> GameState,
                                         wall_parts |-> new_wall_parts(w[1], w[2]) \cup wall_parts],
                              result |-> "running"]
            /\ search = [stack |-> <<players_positions[i]>>, visited |-> {}, found |-> FALSE]
            /\ expanded = <<>>

\* One iteration of the while loop: stack.pop(), then, if the position is not
\* in visited, the enumeration of its neighbours.
can_exit_iteration ==
    /\ search_call # NoSearch
    /\ ~can_exit_done(search)
    /\ search' = can_exit_step(search, search_call.index, search_call.wall_parts)
    /\ expanded' = IF search.stack[Len(search.stack)] \in search.visited
                   THEN expanded
                   ELSE Append(expanded, search.stack[Len(search.stack)])
    /\ UNCHANGED <<game_vars, last, search_call, board_vars>>

\* return True inside the loop, or return False after it.
can_exit_return ==
    /\ search_call # NoSearch
    /\ can_exit_done(search)
    /\ search_call.result = "running"
    /\ search_call' = [search_call EXCEPT !.result = IF search.found THEN "True" ELSE "False"]
    /\ UNCHANGED <<game_vars, last, search, expanded, board_vars>>

NextSearch == can_exit_iteration \/ can_exit_return

SpecSearch == InitSearch /\ [][NextSearch]_vars

\* The loop runs on: nothing suspends an iteration or the return.
SpecSearchFair ==
    SpecSearch /\ WF_vars(can_exit_iteration) /\ WF_vars(can_exit_return)

(* ------------------------------------------------------------------ *)
(* Reading the record of the last call.                                *)
(* ------------------------------------------------------------------ *)
Called == last # NoCall

Accepted == Called /\ last.message = None

Rejected == Called /\ last.message # None

\* The player who made the last call, and where that player stood.
Actor == last.pre.index

ActorFrom == last.pre.positions[Actor]

\* Row and column distance between the actor's cell and the destination asked for.
RowDist == Abs(last.position[1] - ActorFrom[1])

ColDist == Abs(last.position[2] - ActorFrom[2])

\* The fine coordinate between two adjacent cells.
Between(a, b) == <<a[1] + b[1], a[2] + b[2]>>

(* ------------------------------------------------------------------ *)
(* C1                                                                  *)
(* ------------------------------------------------------------------ *)
\* C1: in every state reached by move_to and add_wall calls, accepted or
\* rejected, every player can still exit: can_exit(i, wall_parts) is true
\* for player 0 and for player 1.
C1_Connectivity ==
    \A i \in Players : can_exit(players_positions, i, wall_parts)

\* A wall that would have closed the board was asked for, and refused.
C1_Witness ==
    /\ Called /\ last.op = "add_wall"
    /\ last.message \in {ERROR_BLOCK_YOU, ERROR_BLOCK_HIM}
    /\ Cardinality(placed) >= 4

(* ------------------------------------------------------------------ *)
(* C2                                                                  *)
(* ------------------------------------------------------------------ *)
\* C2: after a call of move_to or add_wall that returned a message, the
\* positions, the wall counts, the committed wall parts and the turn index
\* are what they were before the call.
C2_RejectionKeepsState ==
    Rejected =>
        /\ players_positions = last.pre.positions
        /\ count_walls = last.pre.counts
        /\ wall_parts = last.pre.walls
        /\ index = last.pre.index

\* A wall was refused, in a game that already has a wall, on player 1's turn.
C2_Witness ==
    /\ Rejected /\ last.op = "add_wall"
    /\ wall_parts # {} /\ index = 1

(* ------------------------------------------------------------------ *)
(* C3                                                                  *)
(* ------------------------------------------------------------------ *)
\* C3: after an accepted move or wall of player i, the turn index is 1 - i
\* if player i does not stand on the goal row (row 0 for player 0, row 8 for
\* player 1), and stays i if player i stands on it.
C3_TurnAlternation ==
    Accepted =>
        LET i == Actor
            goal_row == IF i = 0 THEN 0 ELSE 8
        IN  index = IF players_positions[i][1] = goal_row THEN i ELSE 1 - i

\* Player 1 has just stepped onto row 8 and keeps the turn.
C3_Witness ==
    /\ Accepted /\ last.op = "move_to" /\ Actor = 1
    /\ players_positions[1][1] = 8 /\ last.pre.positions[1][1] = 7
    /\ index = 1

(* ------------------------------------------------------------------ *)
(* The run of a wall, and the wall asked for by the last call.          *)
(* ------------------------------------------------------------------ *)
\* 2 * (r, c) + secondary + n * primary for n in {0, 1, 2}
Run(cell, primary, secondary) ==
    {<<2 * cell[1] + secondary[1] + n * primary[1],
       2 * cell[2] + secondary[2] + n * primary[2]>> : n \in 0..2}

\* A vertical wall runs down the rows, to the right of its cell; a horizontal
\* wall runs along the columns, below its cell.
WallRun(cell, hv) ==
    IF hv = "v" THEN Run(cell, <<1, 0>>, <<0, 1>>) ELSE Run(cell, <<0, 1>>, <<1, 0>>)

\* The run with primary = (0, 1) if vertical else (1, 0) and
\* secondary = (1, 0) if vertical else (0, 1).
SwappedRun(cell, hv) ==
    IF hv = "v" THEN Run(cell, <<0, 1>>, <<1, 0>>) ELSE Run(cell, <<1, 0>>, <<0, 1>>)

WallAsked == Called /\ last.op = "add_wall"

AskedRun == WallRun(last.position, last.hv)

(* ------------------------------------------------------------------ *)
(* C4                                                                  *)
(* ------------------------------------------------------------------ *)
\* No two accepted walls share a part, and the lattice is made of their parts.
NoSharedPart ==
    /\ \A w1, w2 \in placed :
          w1 # w2 => WallRun(w1[1], w1[2]) \cap WallRun(w2[1], w2[2]) = {}
    /\ wall_parts = UNION {WallRun(w[1], w[2]) : w \in placed}

\* C4, as stated: no two accepted walls share a part, and an add_wall whose
\* parts meet the committed lattice is always rejected with the
\* wall-intersection message.
C4_AlwaysIntersectionMessage ==
    /\ NoSharedPart
    /\ (WallAsked /\ AskedRun \cap last.pre.walls # {})
          => last.message = ERROR_WALL_INTERSECTION

\* C4, amended: no two accepted walls share a part, and an add_wall whose
\* parts meet the committed lattice is always rejected: with the
\* wall-intersection message if the acting player has a wall left, with the
\* no-wall message if not.
C4_NoOverlap ==
    /\ NoSharedPart
    /\ (WallAsked /\ AskedRun \cap last.pre.walls # {})
          => last.message = IF last.pre.counts[Actor] = 0
                            THEN ERROR_NO_WALL
                            ELSE ERROR_WALL_INTERSECTION

\* A wall that shares exactly one part with the lattice was refused.
C4_Witness ==
    /\ WallAsked /\ last.message = ERROR_WALL_INTERSECTION
    /\ Cardinality(AskedRun \cap last.pre.walls) = 1
    /\ Cardinality(placed) >= 2

(* ------------------------------------------------------------------ *)
(* C5                                                                  *)
(* ------------------------------------------------------------------ *)
\* C5: an accepted add_wall takes exactly 1 from the acting player's count
\* and leaves the other player's count; an accepted move and every
\* rejected call leave both counts.
C5_WallCount ==
    Called =>
        IF last.op = "add_wall" /\ last.message = None
        THEN /\ count_walls[Actor] = last.pre.counts[Actor] - 1
             /\ count_walls[1 - Actor] = last.pre.counts[1 - Actor]
        ELSE \A i \in Players : count_walls[i] = last.pre.counts[i]

\* Player 1 has just placed a second wall.
C5_Witness ==
    /\ WallAsked /\ last.message = None /\ Actor = 1
    /\ last.pre.counts[1] = 9 /\ count_walls[1] = 8

(* ------------------------------------------------------------------ *)
(* C6                                                                  *)
(* ------------------------------------------------------------------ *)
\* C6: move_to to a destination of the grid is rejected with ERROR_NOTHING
\* at Manhattan distance 0 and with ERROR_FAR_AWAY at a distance above 2;
\* at distance 1 it is accepted if and only if the fine coordinate
\* current + destination is not in the lattice, and is rejected with
\* ERROR_GHOST if it is.
C6_SimpleMove ==
    (Called /\ last.op = "move_to") =>
        LET distance == RowDist + ColDist
            blocked == Between(ActorFrom, last.position) \in last.pre.walls
        IN  /\ distance = 0 => last.message = "You must move or add a wall (if you have)."
            /\ distance > 2 => last.message = "You can not go that far."
            /\ distance = 1 =>
                 last.message = IF blocked THEN "You can not go through a wall." ELSE None

\* A step through a wall was refused.
C6_Witness ==
    /\ Called /\ last.op = "move_to" /\ RowDist + ColDist = 1
    /\ last.message = ERROR_GHOST

(* ------------------------------------------------------------------ *)
(* C7                                                                  *)
(* ------------------------------------------------------------------ *)
StraightAsked ==
    /\ Called /\ last.op = "move_to"
    /\ RowDist + ColDist = 2 /\ (RowDist = 0 \/ ColDist = 0)

\* The cell between the actor and a destination two cells away in a line.
Midpoint == <<(ActorFrom[1] + last.position[1]) \div 2,
              (ActorFrom[2] + last.position[2]) \div 2>>

NoOpponentThere == "You can not go that far."
WallBeforeOpponent == "To jump over an enemy, you need no wall\nbetween you and him/her."
WallBehindOpponent == "To jump over an enemy, you need no wall behind him/her."

\* C7: a straight move of distance 2 is accepted if and only if (1) another
\* player stands on the midpoint, (2) no wall part lies between the actor
\* and the midpoint and (3) none between the midpoint and the destination;
\* a rejection reports the first condition that fails, in that order, and
\* the three reports differ.
C7_StraightJump ==
    /\ NoOpponentThere # WallBeforeOpponent
    /\ NoOpponentThere # WallBehindOpponent
    /\ WallBeforeOpponent # WallBehindOpponent
    /\ StraightAsked =>
         LET c1 == \E j \in Players \ {Actor} : last.pre.positions[j] = Midpoint
             c2 == Between(ActorFrom, Midpoint) \notin last.pre.walls
             c3 == Between(Midpoint, last.position) \notin last.pre.walls
         IN  last.message = IF ~c1 THEN NoOpponentThere
                            ELSE IF ~c2 THEN WallBeforeOpponent
                            ELSE IF ~c3 THEN WallBehindOpponent
                            ELSE None

\* A jump over an opponent with a wall before and a wall behind was refused
\* for the wall before.
C7_Witness ==
    /\ StraightAsked
    /\ \E j \in Players \ {Actor} : last.pre.positions[j] = Midpoint
    /\ Between(ActorFrom, Midpoint) \in last.pre.walls
    /\ Between(Midpoint, last.position) \in last.pre.walls
    /\ last.message = WallBeforeOpponent

(* ------------------------------------------------------------------ *)
(* C8                                                                  *)
(* ------------------------------------------------------------------ *)
DiagonalAsked ==
    /\ Called /\ last.op = "move_to"
    /\ RowDist = 1 /\ ColDist = 1

Adjacent(a, b) == Abs(a[1] - b[1]) + Abs(a[2] - b[2]) = 1

OnBoard(p) == p[1] \in 0..8 /\ p[2] \in 0..8

\* The cell behind opponent j, seen from the actor.
Behind(j) ==
    <<2 * last.pre.positions[j][1] - ActorFrom[1],
      2 * last.pre.positions[j][2] - ActorFrom[2]>>

\* Conditions (a) to (e) for opponent j.
JumpAround(j) ==
    LET opponent == last.pre.positions[j]
    IN  /\ Adjacent(opponent, ActorFrom)
        /\ Adjacent(opponent, last.position)
        /\ Between(ActorFrom, opponent) \notin last.pre.walls
        /\ \/ ~OnBoard(Behind(j))
           \/ Between(opponent, Behind(j)) \in last.pre.walls
        /\ Between(opponent, last.position) \notin last.pre.walls

\* C8: a diagonal move of distance 2 is accepted if and only if some
\* opponent is (a) adjacent to the actor, (b) adjacent to the destination,
\* (c) not walled off from the actor, (d) has behind it a cell that is off
\* the grid or walled off from it, and (e) is not walled off from the
\* destination; so a diagonal jump around an opponent is never accepted
\* where the straight jump over that opponent would be accepted.
C8_DiagonalJump ==
    DiagonalAsked =>
        /\ last.message = None <=> \E j \in Players \ {Actor} : JumpAround(j)
        /\ last.message = None =>
             \A j \in Players \ {Actor} :
                JumpAround(j) =>
                    ~(OnBoard(Behind(j)) /\ move_to_message(last.pre, Behind(j)) = None)

\* A jump around an opponent whose back, on the grid, is walled.
C8_Witness ==
    /\ DiagonalAsked /\ last.message = None
    /\ \E j \in Players \ {Actor} :
          /\ JumpAround(j)
          /\ OnBoard(Behind(j))
          /\ move_to_message(last.pre, Behind(j)) = WallBehindOpponent

(* ------------------------------------------------------------------ *)
(* C9                                                                  *)
(* ------------------------------------------------------------------ *)
\* add_wall tests and commits the parts of run: with a wall left, it reports
\* an intersection exactly when run meets the lattice, and an accepted wall
\* adds exactly run to the lattice.
TestsAndCommits(run) ==
    WallAsked =>
        /\ last.pre.counts[Actor] > 0 =>
             (last.message = ERROR_WALL_INTERSECTION <=> run \cap last.pre.walls # {})
        /\ last.message = None =>
             /\ run \cap last.pre.walls = {}
             /\ wall_parts = last.pre.walls \cup run

\* C9, as stated: with primary = (0, 1) if vertical else (1, 0) and
\* secondary = (1, 0) if vertical else (0, 1), the parts that add_wall tests
\* and commits for a wall at (r, c) are 2 * (r, c) + secondary + n * primary,
\* n in {0, 1, 2}.
C9_SwappedGeometry == TestsAndCommits(SwappedRun(last.position, last.hv))

\* C9, amended: with primary = (1, 0) if vertical else (0, 1) and
\* secondary = (0, 1) if vertical else (1, 0), the parts that add_wall tests
\* and commits for a wall at (r, c) are 2 * (r, c) + secondary + n * primary,
\* n in {0, 1, 2}.
C9_WallGeometry == TestsAndCommits(WallRun(last.position, last.hv))

\* A vertical wall was accepted beside a horizontal one.
C9_Witness ==
    /\ WallAsked /\ last.message = None /\ last.hv = "v"
    /\ \E w \in placed : w[2] = "h"

(* ------------------------------------------------------------------ *)
(* C10                                                                 *)
(* ------------------------------------------------------------------ *)
\* C10: add_wall by a player with no wall left is rejected with
\* ERROR_NO_WALL whatever the cell and the orientation, also when the wall
\* would overlap or disconnect a player; with a wall left, a wall that
\* shares a part with the lattice is rejected with ERROR_WALL_INTERSECTION,
\* whether or not it would pass the exit test.
C10_WallRejectionPriority ==
    WallAsked =>
        IF last.pre.counts[Actor] = 0
        THEN last.message = "You can not put up a wall you do not have."
        ELSE AskedRun \cap last.pre.walls # {}
                => last.message = "You can not create a wall twice."

\* A player with no wall left asked for a wall that overlaps nothing and
\* would leave a player without exit.
C10_Witness ==
    /\ WallAsked /\ last.pre.counts[Actor] = 0
    /\ AskedRun \cap last.pre.walls = {}
    /\ blocked_players(last.pre.positions, AskedRun \cup last.pre.walls) # {}
    /\ last.message = ERROR_NO_WALL

\* A player with a wall left asked for a wall that overlaps the lattice and
\* would also leave a player without exit.
C10_OverlapAndBlock ==
    /\ WallAsked /\ last.pre.counts[Actor] > 0
    /\ AskedRun \cap last.pre.walls # {}
    /\ blocked_players(last.pre.positions, AskedRun \cup last.pre.walls) # {}
    /\ last.message = ERROR_WALL_INTERSECTION

(* ------------------------------------------------------------------ *)
(* Paths on the grid, stated without the search of can_exit.           *)
(* ------------------------------------------------------------------ *)
\* The cells one unblocked orthogonal step away from cell a.
OpenSteps(a, lattice) ==
    {b \in {<<a[1] - 1, a[2]>>, <<a[1] + 1, a[2]>>, <<a[1], a[2] - 1>>, <<a[1], a[2] + 1>>} :
        OnBoard(b) /\ Between(a, b) \notin lattice}

\* The least set that holds the cells of reached and is closed under steps.
RECURSIVE Flood(_, _)
Flood(reached, lattice) ==
    LET more == reached \cup UNION {OpenSteps(a, lattice) : a \in reached}
    IN  IF more = reached THEN reached ELSE Flood(more, lattice)

GoalRow(i) == IF i = 0 THEN 0 ELSE 8

\* A path of one or more unblocked steps leads from cell to the goal row of i.
HasPath(cell, i, lattice) ==
    \E c \in Flood(OpenSteps(cell, lattice), lattice) : c[1] = GoalRow(i)

\* The lattice that the wall asked for would make.
AskedLattice == AskedRun \cup last.pre.walls

\* A wall was asked for by a player with a wall left, and overlaps nothing.
FreshWallAsked ==
    /\ WallAsked /\ last.pre.counts[Actor] > 0
    /\ AskedRun \cap last.pre.walls = {}

Stuck(i) == ~HasPath(last.pre.positions[i], i, AskedLattice)

(* ------------------------------------------------------------------ *)
(* C11                                                                 *)
(* ------------------------------------------------------------------ *)
\* C11, as stated: when the acting player has a wall left, the wall asked for
\* overlaps nothing and would leave the acting player without a path to the
\* own goal row, add_wall is rejected with the block-yourself message, for
\* either acting player and also when the wall blocks the other player too,
\* and the lattice is unchanged.
C11_AlwaysBlockYourself ==
    (FreshWallAsked /\ Stuck(Actor)) =>
        /\ last.message = "You can not entirely block yourself."
        /\ wall_parts = last.pre.walls

\* C11, amended: under the same conditions add_wall is rejected and the
\* lattice is unchanged; the message is the block-yourself one, except that
\* acting player 1 gets the block-another-player message when the wall
\* leaves player 0 without a path too.
C11_SelfBlock ==
    (FreshWallAsked /\ Stuck(Actor)) =>
        /\ last.message = IF Actor = 1 /\ Stuck(0)
                          THEN "You can not entirely block another player."
                          ELSE "You can not entirely block yourself."
        /\ wall_parts = last.pre.walls

\* Player 0 asked for a wall that leaves both players without a path.
C11_Witness ==
    /\ FreshWallAsked /\ Actor = 0 /\ Stuck(0) /\ Stuck(1)
    /\ last.message = ERROR_BLOCK_YOU

\* Player 1 asked for a wall that leaves only player 1 without a path.
C11_AloneWitness ==
    /\ FreshWallAsked /\ Actor = 1 /\ Stuck(1) /\ ~Stuck(0)
    /\ last.message = ERROR_BLOCK_YOU

(* ------------------------------------------------------------------ *)
(* C12                                                                 *)
(* ------------------------------------------------------------------ *)
\* C12: for a wall that overlaps nothing, asked for by a player with a wall
\* left, the players are tested in the order 0, 1 and the first one without
\* a path decides the message: block-yourself if it is the acting player,
\* block-another-player if not; the wall is accepted exactly when neither
\* player is without a path.
C12_BlockOrder ==
    FreshWallAsked =>
        /\ last.message =
              IF Stuck(0)
              THEN (IF Actor = 0 THEN ERROR_BLOCK_YOU ELSE ERROR_BLOCK_HIM)
              ELSE IF Stuck(1)
              THEN (IF Actor = 1 THEN ERROR_BLOCK_YOU ELSE ERROR_BLOCK_HIM)
              ELSE None
        /\ (wall_parts = AskedLattice /\ last.message = None) <=> (~Stuck(0) /\ ~Stuck(1))

\* Player 1 asked for a wall that leaves both players without a path.
C12_Witness ==
    /\ FreshWallAsked /\ Actor = 1 /\ Stuck(0) /\ Stuck(1)
    /\ last.message = ERROR_BLOCK_HIM

\* Player 0 asked for a wall that leaves only player 1 without a path.
C12_OtherWitness ==
    /\ FreshWallAsked /\ Actor = 0 /\ ~Stuck(0) /\ Stuck(1)
    /\ last.message = ERROR_BLOCK_HIM

(* ------------------------------------------------------------------ *)
(* C13                                                                 *)
(* ------------------------------------------------------------------ *)
Searching == search_call # NoSearch

Searcher == search_call.index

SearchFrom == search_call.entry.game.positions[Searcher]

SearchLattice == search_call.entry.wall_parts

Returned == Searching /\ search_call.result # "running"

\* C13: can_exit returns true if and only if a path of one or more steps
\* between orthogonally adjacent cells of the grid, none across a part of the
\* lattice passed in, leads from the player's cell to a cell of the
\* player's goal row; and it changes neither the game state nor the lattice
\* passed in.
C13_SearchCorrect ==
    Searching =>
        /\ Returned =>
             (search_call.result = "True" <=> HasPath(SearchFrom, Searcher, SearchLattice))
        /\ expanded = <<>> =>
             (can_exit(players_positions, Searcher, search_call.wall_parts)
                <=> HasPath(SearchFrom, Searcher, SearchLattice))
        /\ GameState = search_call.entry.game
        /\ search_call.wall_parts = search_call.entry.wall_parts

\* A search that visited several cells returned False.
C13_Witness ==
    /\ Returned /\ search_call.result = "False"
    /\ Cardinality(search.visited) >= 2

\* A search returned True after it had to leave a dead end.
C13_TrueWitness ==
    /\ Returned /\ search_call.result = "True"
    /\ Cardinality(search.visited) >= 10

(* ------------------------------------------------------------------ *)
(* C17                                                                 *)
(* ------------------------------------------------------------------ *)
\* No cell was expanded twice, and every visited cell was expanded once.
ExpandedOnce ==
    /\ \A a, b \in 1..Len(expanded) : a # b => expanded[a] # expanded[b]
    /\ Searching => {expanded[a] : a \in 1..Len(expanded)} = search.visited
    /\ Len(expanded) <= 81

\* C17: the loop of can_exit ends, and it expands (adds to visited and
\* enumerates the neighbours of) each cell at most once, hence at most 81
\* cells in a call.
C17_SearchTerminates == [](ExpandedOnce) /\ <>(Returned)

\* A search returned False after it expanded every cell on its side of a
\* closed row.
C17_Witness ==
    /\ Returned /\ search_call.result = "False"
    /\ Len(expanded) >= 36

(* ------------------------------------------------------------------ *)
(* C14                                                                 *)
(* ------------------------------------------------------------------ *)
OnGoalRow(i) == players_positions[i][1] = GoalRow(i)

\* An accepted click has left the acting player on the own goal row.
WinningClick == Accepted /\ OnGoalRow(Actor)

\* Once the board is finished it stays so, and no step changes the positions,
\* the wall counts, the lattice or the turn index.
FinishedIsAbsorbing ==
    isFinished =>
        /\ isFinished'
        /\ players_positions' = players_positions
        /\ count_walls' = count_walls
        /\ wall_parts' = wall_parts
        /\ index' = index

\* C14: as soon as an accepted click leaves the acting player on the own goal
\* row, Board.isFinished is true; from then on every click leaves the
\* positions, the wall counts, the lattice and the turn index of the game
\* unchanged, and the turn index is that of the winner.
C14_GameOverAbsorbing ==
    /\ [](WinningClick => isFinished)
    /\ [](isFinished => OnGoalRow(index))
    /\ [][FinishedIsAbsorbing]_vars

\* Player 1 has won and a later click on a cell was ignored.
C14_Witness ==
    /\ isFinished /\ index = 1 /\ OnGoalRow(1)
    /\ Called /\ last.message = IT_IS_OVER

(* ------------------------------------------------------------------ *)
(* C20                                                                 *)
(* ------------------------------------------------------------------ *)
\* C20: after every click handled by Board.receiveClick, accepted, rejected
\* or ignored, Board.playerIndex equals Game.index, TurnLabel.index equals
\* Game.index + 1, each PlayerLabel.nbWalls equals the count_walls of the
\* same player, and Board.isFinished is true exactly when the current
\* player has won.
C20_BoardMirrorsGame ==
    Called =>
        /\ playerIndex = index
        /\ turnLabel = index + 1
        /\ \A i \in Players : playerLabels[i] = count_walls[i]
        /\ isFinished <=> OnGoalRow(index)

\* Player 1 has placed a wall by a click: the label and the turn follow.
C20_Witness ==
    /\ Accepted /\ last.op = "add_wall" /\ Actor = 1
    /\ playerLabels[1] = 9 /\ playerIndex = 0 /\ turnLabel = 1

(* ------------------------------------------------------------------ *)
(* C15                                                                 *)
(* ------------------------------------------------------------------ *)
\* What an accepted call has left alone, and what it has changed.
AcceptedFrame ==
    Accepted =>
        IF last.op = "move_to"
        THEN /\ players_positions[Actor] = last.position
             /\ players_positions[1 - Actor] = last.pre.positions[1 - Actor]
             /\ wall_parts = last.pre.walls
             /\ \A i \in Players : count_walls[i] = last.pre.counts[i]
        ELSE /\ \A i \in Players : players_positions[i] = last.pre.positions[i]
             /\ wall_parts = last.pre.walls \cup AskedRun
             /\ Cardinality(wall_parts) = Cardinality(last.pre.walls) + 3

\* C15: an accepted move_to changes only the acting player's position, set to
\* the destination, and possibly the turn index: the lattice, both wall
\* counts and the other player's position stay; an accepted add_wall leaves
\* both positions and makes the lattice the old lattice plus the three new
\* parts; so the lattice never loses a part.
C15_Frame == [](AcceptedFrame) /\ [][wall_parts \subseteq wall_parts']_vars

\* Player 1 has moved in a game with a wall and stays the current player or
\* not: only the position of player 1 has changed.
C15_Witness ==
    /\ Accepted /\ last.op = "move_to" /\ Actor = 1
    /\ wall_parts # {}
    /\ players_positions[1] # last.pre.positions[1]
    /\ players_positions[0] = last.pre.positions[0]

(* ------------------------------------------------------------------ *)
(* C16                                                                 *)
(* ------------------------------------------------------------------ *)
\* The pairs of orthogonally adjacent cells of the grid that a run separates.
Separated(run) ==
    {pair \in {{a, b} : a \in Cells, b \in Cells} :
        \E a \in pair, b \in pair : Adjacent(a, b) /\ Between(a, b) \in run}

\* C16, as stated: a wall accepted by add_wall, for a cell of the grid and
\* either orientation, has its three parts inside the fine grid (both
\* components in 0..16) and separates exactly two pairs of adjacent cells.
\* The game accepts a wall on a cell of row 8 or column 8, whose parts leave
\* the fine grid.
C16_WallsOnBoard ==
    (WallAsked /\ last.message = None) =>
        /\ \A part \in AskedRun : part[1] \in 0..16 /\ part[2] \in 0..16
        /\ Cardinality(Separated(AskedRun)) = 2

(* ------------------------------------------------------------------ *)
(* C18                                                                 *)
(* ------------------------------------------------------------------ *)
\* C18, as stated: in every state reached from a new game by accepted moves
\* and walls, the two players stand on different cells.  The game accepts a
\* move of distance 1 onto the cell of the opponent.
C18_DistinctCells == players_positions[0] # players_positions[1]

(* ------------------------------------------------------------------ *)
(* C19                                                                 *)
(* ------------------------------------------------------------------ *)
\* C19: in every state of the game, also when calls go on after a win, a
\* player who stands on the own goal row is the current player; so at most
\* one player has won at any time, and right after the turn has passed the
\* new current player has not won.
C19_WinnerIsCurrent ==
    /\ \A j \in Players : OnGoalRow(j) => index = j
    /\ Cardinality({j \in Players : OnGoalRow(j)}) <= 1
    /\ (Accepted /\ index # Actor) => ~OnGoalRow(index)

\* A winner has gone on playing: the move left the goal row and the turn
\* passed.
C19_Witness ==
    /\ Accepted /\ last.op = "move_to"
    /\ last.pre.positions[Actor][1] = GoalRow(Actor)
    /\ ~OnGoalRow(Actor) /\ index = 1 - Actor

(* ------------------------------------------------------------------ *)
(* C21                                                                 *)
(* ------------------------------------------------------------------ *)
\* The walls a player starts with (20 // nb_players).
WallsEach == TOTAL_WALLS \div nb_players

\* The walls taken from the counts since the game was made.
WallsSpent == TOTAL_WALLS - count_walls[0] - count_walls[1]

\* C21: in every state each player's count_walls is between 0 and 10, and
\* the lattice holds exactly 3 parts for every wall taken from the counts,
\* 3 * (20 - count_walls[0] - count_walls[1]); so no player places more
\* than 10 walls and the board never holds more than 20.
C21_WallBudget ==
    /\ \A i \in Players : count_walls[i] >= 0 /\ count_walls[i] <= WallsEach
    /\ Cardinality(wall_parts) = 3 * WallsSpent
    /\ WallsSpent <= TOTAL_WALLS

\* A player has just placed the last wall of the count: 3 more parts.
C21_Witness ==
    /\ WallAsked /\ last.message = None
    /\ last.pre.counts[Actor] = 1 /\ count_walls[Actor] = 0
    /\ Cardinality(wall_parts) = Cardinality(last.pre.walls) + 3

\* A player whose count is 0 has asked for a wall and was refused.
C21_RefusedWitness ==
    /\ WallAsked /\ last.message = ERROR_NO_WALL
    /\ count_walls[Actor] = 0
    /\ wall_parts = last.pre.walls

====
